---- MODULE Spec2Model ----
(***************************************************************************)
(* Model of the stacker build engine: the Build driver (build.go), the     *)
(* base-layer importer (GetBaseLayer and its helpers) and the tag parser.  *)
(* Strings of the program (layer names, tags, URLs) are sequences of       *)
(* one-character strings, so that splitting and prefix tests are computed  *)
(* as the code computes them.                                              *)
(***************************************************************************)
EXTENDS Integers, Sequences, FiniteSets, TLC

\* ------------------------------------------------------------------------
\* Bounds of the model
\* ------------------------------------------------------------------------

\* Number of consecutive Build invocations against the same directories.
MaxBuilds == 3

\* Number of layers of the recipes explored.
MaxLayers == 2

\* Number of collaborator calls that fail in one behaviour.
MaxFailures == 1

\* Number of layers of the manifests given to ComputeAggregateHash.
MaxManifestLayers == 3

\* Number of characters that follow the prefix of the URLs given to
\* tagFromSkopeoUrl.
MaxUrlSuffix == 6

\* Number of layers of the recipes given to getBuilt.
MaxChain == 3

\* ------------------------------------------------------------------------
\* Strings
\* ------------------------------------------------------------------------

Empty == << >>

sDocker == <<"d", "o", "c", "k", "e", "r">>

sOci == <<"o", "c", "i">>

sOciColon == <<"o", "c", "i", ":">>

\* strings.HasPrefix
HasPrefix(s, p) == Len(s) >= Len(p) /\ SubSeq(s, 1, Len(p)) = p

\* Index of the first occurrence of character c in s at or after position i,
\* or 0 when there is none.
RECURSIVE IndexFrom(_, _, _)
IndexFrom(s, c, i) ==
    IF i > Len(s) THEN 0
    ELSE IF s[i] = c THEN i
    ELSE IndexFrom(s, c, i + 1)

\* strings.Split(s, sep) for a one-character separator: always at least one
\* piece, empty pieces kept. i is the index of the first separator.
RECURSIVE SplitAt(_, _, _)
SplitAt(s, c, i) ==
    IF i = 0 THEN <<s>>
    ELSE <<SubSeq(s, 1, i - 1)>>
         \o SplitAt(SubSeq(s, i + 1, Len(s)), c,
                    IndexFrom(SubSeq(s, i + 1, Len(s)), c, 1))

Split(s, c) == SplitAt(s, c, IndexFrom(s, c, 1))

\* Index of the last occurrence of c in s, or 0.
RECURSIVE LastIndex(_, _, _)
LastIndex(s, c, i) ==
    IF i < 1 THEN 0
    ELSE IF s[i] = c THEN i
    ELSE LastIndex(s, c, i - 1)

\* Removes trailing slashes.
RECURSIVE TrimSlashes(_)
TrimSlashes(s) ==
    IF Len(s) > 0 /\ s[Len(s)] = "/" THEN TrimSlashes(SubSeq(s, 1, Len(s) - 1))
    ELSE s

\* The last element of a non-empty path without trailing slashes.
LastElement(t) == SubSeq(t, LastIndex(t, "/", Len(t)) + 1, Len(t))

\* path.Base: "." for the empty path, "/" for a path of slashes only,
\* otherwise the last element with trailing slashes removed.
PathBase(p) ==
    IF p = Empty THEN <<".">>
    ELSE IF TrimSlashes(p) = Empty THEN <<"/">>
    ELSE LastElement(TrimSlashes(p))

\* The characters url.Parse accepts in a scheme after its first letter.
SchemeChars ==
    {"a", "b", "c", "d", "e", "i", "k", "o", "q", "r", "u", "x", "y", "z",
     "0", "1", "+", "-", "."}

\* Length of the scheme of raw URL s (the position of its colon minus one),
\* or 0 when s has no scheme: the scan stops at the first character that
\* cannot be part of a scheme.
RECURSIVE SchemeLen(_, _)
SchemeLen(s, i) ==
    IF i > Len(s) THEN 0
    ELSE IF s[i] = ":" THEN i - 1
    ELSE IF s[i] \in SchemeChars THEN SchemeLen(s, i + 1)
    ELSE 0

\* Hexadecimal digits.
HexChars ==
    {"0", "1", "2", "3", "4", "5", "6", "7", "8", "9",
     "a", "b", "c", "d", "e", "f", "A", "B", "C", "D", "E", "F"}

\* s holds a "%" that is not followed by two hexadecimal digits, which
\* url.Parse rejects in a host and in a path.
BadEscape(s) ==
    \E i \in 1..Len(s) :
        /\ s[i] = "%"
        /\ ~(i + 2 <= Len(s) /\ s[i + 1] \in HexChars /\ s[i + 2] \in HexChars)

\* The first path segment of rest holds a colon.
ColonInFirstSegment(rest) ==
    /\ IndexFrom(rest, ":", 1) > 0
    /\ \/ IndexFrom(rest, "/", 1) = 0
       \/ IndexFrom(rest, ":", 1) < IndexFrom(rest, "/", 1)

ErrUrlEscape == "invalid URL escape"

ErrUrlColon == "first path segment in URL cannot contain colon"

\* Results of url.Parse: an error, or the host and the path of the URL.
UrlErr(e) == [err |-> e, Host |-> Empty, Path |-> Empty]

Url(host, path) ==
    IF BadEscape(host) \/ BadEscape(path) THEN UrlErr(ErrUrlEscape)
    ELSE [err |-> "", Host |-> host, Path |-> path]

\* The authority and path of a URL whose rest after the scheme starts with
\* "//": auth is what follows the two slashes, slash the index of the next
\* slash in it.
UrlAuthority(auth, slash) ==
    IF slash = 0
    THEN Url(auth, Empty)
    ELSE Url(SubSeq(auth, 1, slash - 1), SubSeq(auth, slash, Len(auth)))

\* The rest of a URL after its scheme (hasScheme tells whether it has one).
\* A URL with a scheme whose rest does not start with "/" is opaque and has
\* neither host nor path; without a scheme, a colon in the first path
\* segment is an error.
UrlRest(rest, hasScheme) ==
    IF hasScheme /\ ~HasPrefix(rest, <<"/">>)
    THEN [err |-> "", Host |-> Empty, Path |-> Empty]
    ELSE IF ~hasScheme /\ ~HasPrefix(rest, <<"/">>) /\ ColonInFirstSegment(rest)
    THEN UrlErr(ErrUrlColon)
    ELSE IF HasPrefix(rest, <<"/", "/">>)
            /\ (hasScheme \/ ~HasPrefix(rest, <<"/", "/", "/">>))
    THEN UrlAuthority(SubSeq(rest, 3, Len(rest)),
                      IndexFrom(SubSeq(rest, 3, Len(rest)), "/", 1))
    ELSE Url(Empty, rest)

UrlScheme(thing, n) ==
    IF n = 0 THEN UrlRest(thing, FALSE)
    ELSE UrlRest(SubSeq(thing, n + 2, Len(thing)), TRUE)

\* url.Parse, restricted to what tagFromSkopeoUrl reads (the error, Host and
\* Path) for URLs without query, fragment, user info, bracketed host or
\* well-formed percent escape; a port is not validated. The URL is split
\* into scheme, "//authority" and path.
UrlParse(thing) == UrlScheme(thing, SchemeLen(thing, 1))

\* Result of a function returning (string, error).
Ok(v) == [err |-> "", val |-> v]

Err(e) == [err |-> e, val |-> Empty]

ErrBadOCITag == "bad OCI tag"

ErrInvalidImageUrl == "invalid image url"

\* The tag of a parsed docker URL (lines 58-70).
DockerTag(url) ==
    IF url.err # "" THEN Err(url.err)
    ELSE IF url.Path # Empty
    THEN Ok(PathBase(Split(url.Path, ":")[1]))
    ELSE Ok(Split(url.Host, ":")[1])

\* A parser that accepts any oci URL of at least three fields.
OciTagOfThreeOrMore(pieces) ==
    IF Len(pieces) < 3 THEN Err(ErrBadOCITag) ELSE Ok(pieces[3])

\* The tag among the colon-delimited pieces of an oci URL (lines 73-77).
OciTag(pieces) ==
    IF Len(pieces) # 3 THEN Err(ErrBadOCITag) ELSE Ok(pieces[3])

tagFromSkopeoUrl(thing) ==
    IF HasPrefix(thing, sDocker) THEN DockerTag(UrlParse(thing))
    ELSE IF HasPrefix(thing, sOci) THEN OciTag(Split(thing, ":"))
    ELSE Err(ErrInvalidImageUrl)

\* ------------------------------------------------------------------------
\* Recipes (the Stackerfile, read-only for the engine)
\* ------------------------------------------------------------------------

BuiltType == "built"

TarType == "tar"

OCIType == "oci"

DockerType == "docker"

ScratchType == "scratch"

\* The sentinel bundle of the build driver.
Working == <<".", "w">>

Letters == <<"a", "b", "c", "d">>

\* Name of the i-th layer of a recipe.
NameOf(i) == <<Letters[i]>>

\* docker://a (its tag coincides with the name of the first layer) and
\* docker://x.
DockerUrls ==
    {sDocker \o <<":", "/", "/", "a">>, sDocker \o <<":", "/", "/", "x">>}

\* Local OCI layouts d:a and d:x, and the malformed d:x:y.
OciUrls ==
    {<<"d", ":", "a">>, <<"d", ":", "x">>, <<"d", ":", "x", ":", "y">>}

Source(type, tag, url) == [Type |-> type, Tag |-> tag, Url |-> url]

\* The sources the i-th layer of a recipe may have; a built layer names an
\* earlier layer, as a topological order requires. Layers unpacked from a
\* tarball are taken as they are (no run commands); all others have some.
Sources(i) ==
    {Source(ScratchType, Empty, Empty), Source(TarType, Empty, Empty)}
    \cup {Source(DockerType, Empty, u) : u \in DockerUrls}
    \cup {Source(OCIType, Empty, u) : u \in OciUrls}
    \cup {Source(BuiltType, NameOf(j), Empty) : j \in 1..(i - 1)}

RECURSIVE RecipesOfLen(_)
RecipesOfLen(n) ==
    IF n = 0 THEN {<< >>}
    ELSE {Append(r, [Name |-> NameOf(n), From |-> s, BuildOnly |-> b,
                     Run |-> (s.Type # TarType)]) :
            r \in RecipesOfLen(n - 1), s \in Sources(n), b \in BOOLEAN}

\* The recipes explored, each listed in its dependency order.
Recipes == UNION {RecipesOfLen(n) : n \in 1..MaxLayers}

LayerTypes == {"tar", "squashfs"}

\* Names that can appear as a reference of the output OCI layout or as a
\* tag of the layer-base cache.
RefNames == {NameOf(i) : i \in 1..MaxLayers} \cup {<<"x">>}

StorageNames == {NameOf(i) : i \in 1..MaxLayers} \cup {Working}

\* ------------------------------------------------------------------------
\* Descriptors, manifests and bundles
\* ------------------------------------------------------------------------

MediaTypeLayerSquashfs == "application/vnd.oci.image.layer.squashfs"

MediaTypeLayerTar == "application/vnd.oci.image.layer.v1.tar+gzip"

\* A descriptor stands for the digest of a blob: k tells what produced the
\* blob, n the layer or tag it was produced for, b the Build invocation.
Desc(k, n, b) == [k |-> k, n |-> n, b |-> b]

\* ispec.Descriptor{}
ZeroDesc == Desc("zero", Empty, 0)

\* The manifest of the base image stored under tag.
BaseDesc(tag) == Desc("base", tag, 0)

\* A bundle: a rootfs (the set of things that were written into it), the
\* descriptor its umoci metadata points at and the descriptor its mtree file
\* is named after.
Bundle(files, meta) ==
    [present |-> TRUE, files |-> files, meta |-> meta, mtree |-> meta]

NoBundle == [present |-> FALSE, files |-> {}, meta |-> ZeroDesc, mtree |-> ZeroDesc]

EmptyBundle == Bundle({}, ZeroDesc)

Mark(k, n) == [k |-> k, n |-> n]

\* ------------------------------------------------------------------------
\* State
\* ------------------------------------------------------------------------

VARIABLES
    recipe,      \* sf: the layers, in DependencyOrder
    layerType,   \* opts.LayerType
    storage,     \* Storage: name -> bundle (rootFSDir)
    ociRefs,     \* output OCI layout: reference name -> descriptor
    ociBlobs,    \* output OCI layout: blobs present
    baseCache,   \* stackerDir/layer-bases/oci: tags present
    cache,       \* buildCache: layer name -> entry
    pc,          \* position of Build
    idx,         \* index in order of the layer being processed
    build,       \* number of Build invocations started
    result,      \* what the last Build returned: "none", "ok" or an error
    envFailed,   \* a collaborator failed during this invocation
    failures,    \* number of collaborator calls that have failed so far
    ops,         \* operations performed in the current layer iteration
    hit,         \* the cache lookup of the current iteration was a hit
    hits,        \* layers whose lookup hit in this invocation
    completed,   \* layers whose iteration finished in this invocation
    gcRan,       \* the final oci.GC was called during this invocation
    prevRefs,    \* ociRefs when the current invocation started
    rerun,       \* this invocation follows a successful one, with the
                 \* caches kept and every input so far unchanged
    call         \* a call of one of the functions of the package made
                 \* outside Build: its arguments and, once made, its result

vars ==
    <<recipe, layerType, storage, ociRefs, ociBlobs, baseCache, cache, pc, idx,
      build, result, envFailed, failures, ops, hit, hits, completed, gcRan, prevRefs,
      rerun, call>>

NoEntry == [present |-> FALSE, Name |-> Empty, Blob |-> ZeroDesc]

Entry(name, blob) == [present |-> TRUE, Name |-> name, Blob |-> blob]

LayerNames == {NameOf(i) : i \in 1..MaxLayers}

\* No function is being called outside Build.
NoCall == [fn |-> "none", done |-> TRUE]

\* The directories before the first Build: empty storage, empty output
\* layout, empty caches.
Fresh ==
    /\ storage = [n \in StorageNames |-> NoBundle]
    /\ ociRefs = [n \in RefNames |-> ZeroDesc]
    /\ ociBlobs = {}
    /\ baseCache = {}
    /\ cache = [n \in LayerNames |-> NoEntry]
    /\ pc = "idle"
    /\ idx = 0
    /\ build = 0
    /\ result = "none"
    /\ envFailed = FALSE
    /\ failures = 0
    /\ ops = << >>
    /\ hit = FALSE
    /\ hits = {}
    /\ completed = {}
    /\ gcRan = FALSE
    /\ prevRefs = [n \in RefNames |-> ZeroDesc]
    /\ rerun = FALSE

Init ==
    /\ recipe \in Recipes
    /\ layerType \in LayerTypes
    /\ Fresh
    /\ call = NoCall

\* ------------------------------------------------------------------------
\* The recipe as the engine reads it
\* ------------------------------------------------------------------------

\* sf.Get(name): the index of the layer called name, or 0 when the recipe has
\* no such layer.
Get(sf, name) ==
    IF \E i \in 1..Len(sf) : sf[i].Name = name
    THEN CHOOSE i \in 1..Len(sf) : sf[i].Name = name
    ELSE 0

\* From.ParseTag(): the tag a source is stored under. For a built source it
\* is the tag of the source; for docker and oci sources it is parsed from
\* the URL the importer copies from.
ParseTag(from) ==
    IF from.Type = BuiltType THEN Ok(from.Tag)
    ELSE IF from.Type = DockerType THEN tagFromSkopeoUrl(from.Url)
    ELSE IF from.Type = OCIType THEN tagFromSkopeoUrl(sOciColon \o from.Url)
    ELSE Err("unsupported type")

\* ------------------------------------------------------------------------
\* The base-layer importer. It works on the part of the state it can touch:
\* the output OCI layout (refs, blobs), the layer-base cache (base), the
\* bundle at o.Target (working); ops lists the collaborator calls made and
\* err is the error returned ("" for nil). f names the collaborator call
\* that fails during this run of the importer ("none": no call fails).
\* ------------------------------------------------------------------------

Op(op, arg) == [op |-> op, arg |-> arg, d |-> ZeroDesc]

OpD(op, arg, d) == [op |-> op, arg |-> arg, d |-> d]

Log(st, op, arg) == [st EXCEPT !.ops = Append(@, Op(op, arg))]

Fail(st, e) == [st EXCEPT !.err = e]

\* The calls of the importer that can fail.
ImportFailPoints ==
    {"MkdirAll", "ImageCopy cache", "ImageCopy output", "unpack",
     "DeleteReference", "acquireUrl", "umoci init", "tar xf", "mkSquashfs",
     "PutBlob", "OpenLayout", "LookupConfig", "PutBlobJSON config",
     "PutBlobJSON manifest", "UpdateReference", "updateBundleMtree",
     "WriteBundleMeta"}

\* oci.GC: blobs no reference leads to are removed.
Referenced(refs) == {refs[n] : n \in DOMAIN refs} \ {ZeroDesc}

\* lib.ImageCopy from the layer-base cache to the output layout under tag.
CopyToOutput(st, tag, f) ==
    IF f = "ImageCopy output" THEN Fail(st, f)
    ELSE IF tag \notin st.base THEN Fail(st, "ImageCopy: no such image")
    ELSE Log([st EXCEPT !.refs[tag] = BaseDesc(tag),
                        !.blobs = @ \cup {BaseDesc(tag)}],
             "ImageCopy output", tag)

\* The calls of the deferred function of runSkopeo that can fail.
CacheGCFailPoints == {"OpenLayout cache", "GC cache"}

\* The outcome of the deferred function when call f fails.
GCOutcome(f) == IF f \in CacheGCFailPoints THEN f ELSE "none"

\* A garbage collection whose failure is returned when nothing failed
\* before.
CheckedCacheGC(st, g) ==
    IF g \in CacheGCFailPoints /\ st.err = ""
    THEN Fail(Log(st, g, Empty), g)
    ELSE Log(st, "GC cache", Empty)

\* The deferred function of runSkopeo: the layer-base cache is opened and
\* garbage collected; when it cannot be opened nothing more is done, and the
\* outcome of the GC is ignored. Tags are references of that layout, so none
\* is removed. g is the call that fails, "none" when none does.
DeferredCacheGC(st, g) ==
    IF g = "OpenLayout cache" THEN Log(st, g, Empty)
    ELSE Log(st, "GC cache", Empty)

runSkopeo(toImport, o, copyToOutput, st, f, g) ==
    LET tag == tagFromSkopeoUrl(toImport)
    IN IF tag.err # "" THEN Fail(st, tag.err)
       ELSE IF f = "MkdirAll" THEN Fail(st, f)
       ELSE IF f = "ImageCopy cache" THEN DeferredCacheGC(Fail(st, f), g)
       ELSE LET cached == Log([st EXCEPT !.base = @ \cup {tag.val}],
                              "ImageCopy cache", tag.val)
            IN IF ~copyToOutput THEN DeferredCacheGC(cached, g)
               ELSE IF o.LayerType = "tar"
               THEN DeferredCacheGC(CopyToOutput(cached, tag.val, f), g)
               ELSE DeferredCacheGC(cached, g)

\* The blob mkSquashfs makes of the rootfs of .working for layer name.
SquashfsBlob(name, b) == Desc("squashfs layer", name, b)

\* The manifest the squashfs rewrite stores for layer name.
SquashfsManifest(name, b) == Desc("squashfs manifest", name, b)

\* What a manifest descriptor of the output layout resolves to: the layers
\* of the manifest and the diff-IDs of its config.
ManifestOf(d) ==
    IF d.k = "squashfs manifest"
    THEN [Layers |-> <<[MediaType |-> MediaTypeLayerSquashfs,
                        Digest |-> SquashfsBlob(d.n, d.b)]>>,
          DiffIDs |-> <<SquashfsBlob(d.n, d.b)>>]
    ELSE [Layers |-> <<[MediaType |-> MediaTypeLayerTar, Digest |-> d]>>,
          DiffIDs |-> <<Desc("diff", d.n, d.b)>>]

\* The squashfs branch of extractOutput (lines 169-249). The error of
\* tagFromSkopeoUrl is overwritten by that of LookupManifest, which is
\* called with the tag returned, the empty one when the parse failed.
squashfsRewrite(o, st, f, b) ==
    LET gced == Log([st EXCEPT !.blobs = @ \cap Referenced(st.refs)],
                    "GC output", Empty)
        cacheTag == tagFromSkopeoUrl(o.Layer.From.Url)
        blob == Log([gced EXCEPT !.blobs = @ \cup {SquashfsBlob(o.Name, b)}],
                    "PutBlob", o.Name)
        looked == Log(blob, "LookupManifest", cacheTag.val)
        desc == SquashfsManifest(o.Name, b)
        put == [looked EXCEPT !.blobs = @ \cup {desc}]
        ref == Log([put EXCEPT !.refs[o.Name] = desc], "UpdateReference", o.Name)
    IN IF f = "mkSquashfs" THEN Fail(gced, f)
       ELSE IF f = "PutBlob" THEN Fail(gced, f)
       ELSE IF f = "OpenLayout" THEN Fail(blob, f)
       ELSE IF cacheTag.val \notin st.base THEN Fail(looked, "LookupManifest")
       ELSE IF f \in {"LookupConfig", "PutBlobJSON config", "PutBlobJSON manifest"}
       THEN Fail(looked, f)
       ELSE IF f = "UpdateReference" THEN Fail(put, f)
       ELSE IF f = "updateBundleMtree" THEN Fail(ref, f)
       ELSE IF f = "WriteBundleMeta"
       THEN Fail([ref EXCEPT !.working.mtree = desc], f)
       ELSE [ref EXCEPT !.working.mtree = desc, !.working.meta = desc]

extractOutput(o, st, f, b) ==
    LET tag == ParseTag(o.Layer.From)
    IN IF tag.err # "" THEN Fail(st, tag.err)
       ELSE IF f = "unpack" THEN Fail(st, f)
       ELSE IF tag.val \notin st.base THEN Fail(st, "image unpack failed")
       ELSE LET unpacked ==
                    Log([st EXCEPT !.working =
                            Bundle(@.files \cup {Mark("image", tag.val)},
                                   BaseDesc(tag.val))],
                        "unpack", tag.val)
                deleted ==
                    Log([unpacked EXCEPT !.refs[tag.val] = ZeroDesc],
                        "DeleteReference", tag.val)
            IN IF o.LayerType = "squashfs" /\ ~o.Layer.BuildOnly
               THEN squashfsRewrite(o, deleted, f, b)
               ELSE deleted

getDocker(o, st, f, b) ==
    LET copied == runSkopeo(o.Layer.From.Url, o,
                            ~o.Layer.BuildOnly /\ o.LayerType = "tar", st, f,
                            GCOutcome(f))
    IN IF copied.err # "" THEN copied ELSE extractOutput(o, copied, f, b)

\* The descriptor of the empty image umoci init unpacks.
EmptyImageDesc == Desc("empty", Empty, 0)

\* umoci init: the bundle becomes an unpacked empty image; no reference is
\* written to the output layout.
umociInit(o, st, f) ==
    IF f = "umoci init" THEN Fail(st, f)
    ELSE Log([st EXCEPT !.working = Bundle(@.files, EmptyImageDesc)],
             "umoci init", o.Name)

getTar(o, st, f) ==
    IF f \in {"MkdirAll", "acquireUrl"} THEN Fail(st, f)
    ELSE LET inited == umociInit(o, st, f)
         IN IF inited.err # "" THEN inited
            ELSE IF f = "tar xf" THEN Fail(inited, f)
            ELSE Log([inited EXCEPT !.working.files = @ \cup {Mark("tar", o.Name)}],
                     "tar xf", o.Name)

getScratch(o, st, f) == umociInit(o, st, f)

getOCI(o, st, f, b) ==
    LET copied == runSkopeo(sOciColon \o o.Layer.From.Url, o,
                            ~o.Layer.BuildOnly, st, f, GCOutcome(f))
    IN IF copied.err # "" THEN copied ELSE extractOutput(o, copied, f, b)

\* The layer from.tag of layer i names, built or not; 0 when there is none.
DirectBase(sf, i) == Get(sf, sf[i].From.Tag)

\* The loop of getBuilt: follows From.Tag from layer i until a layer that is
\* not built; 0 when a tag names no layer of the recipe.
RECURSIVE UltimateBase(_, _)
UltimateBase(sf, i) ==
    LET j == Get(sf, sf[i].From.Tag)
    IN IF j = 0 THEN 0
       ELSE IF sf[j].From.Type # BuiltType THEN j
       ELSE UltimateBase(sf, j)

getBuilt(o, sf, st, f) ==
    LET j == UltimateBase(sf, Get(sf, o.Name))
    IN IF j = 0 THEN Fail(st, "missing base layer")
       ELSE IF (sf[j].From.Type # DockerType /\ sf[j].From.Type # OCIType)
               \/ ~sf[j].BuildOnly
       THEN st
       ELSE IF ~sf[j].BuildOnly THEN st
       ELSE LET tag == ParseTag(sf[j].From)
            IN IF tag.err # "" THEN Fail(st, tag.err)
               ELSE LET copied == CopyToOutput(st, tag.val, f)
                    IN IF copied.err # "" THEN copied
                       ELSE IF f = "DeleteReference" THEN Fail(copied, f)
                       ELSE Log([copied EXCEPT !.refs[tag.val] = ZeroDesc],
                                "DeleteReference", tag.val)

GetBaseLayer(o, sf, st, f, b) ==
    LET deleted == Log([st EXCEPT !.refs[o.Name] = ZeroDesc],
                       "DeleteReference", o.Name)
        type == o.Layer.From.Type
    IN IF type = BuiltType THEN getBuilt(o, sf, deleted, f)
       ELSE IF type = TarType THEN getTar(o, deleted, f)
       ELSE IF type = OCIType THEN getOCI(o, deleted, f, b)
       ELSE IF type = DockerType THEN getDocker(o, deleted, f, b)
       ELSE IF type = ScratchType THEN getScratch(o, deleted, f)
       ELSE Fail(deleted, "unknown layer type")

\* ------------------------------------------------------------------------
\* The aggregate hash
\* ------------------------------------------------------------------------

\* Digest strings; all have the same length, as real digests do.
Digests == {<<"1">>, <<"2">>, <<"3">>}

\* A layer descriptor of a manifest, and the descriptor looked for.
Descriptor(digest) == [Digest |-> digest]

RECURSIVE ManifestsOfLen(_)
ManifestsOfLen(n) ==
    IF n = 0 THEN {<< >>}
    ELSE {Append(m, Descriptor(d)) : m \in ManifestsOfLen(n - 1), d \in Digests}

\* manifest.Layers of the manifests explored.
Manifests == UNION {ManifestsOfLen(n) : n \in 0..MaxManifestLayers}

\* h.Sum of sha256 after the bytes written: an injective image of them.
Sha256(written) == [sha256 |-> written]

ErrDescriptorNotInManifest == "couldn't find descriptor in manifest"

\* A loop that writes the digest of every layer and does not stop at the
\* descriptor.
RECURSIVE HashWholeManifest(_, _, _, _)
HashWholeManifest(layers, i, digest, written) ==
    IF i > Len(layers)
    THEN [found |-> \E j \in 1..Len(layers) : layers[j].Digest = digest,
          written |-> written]
    ELSE HashWholeManifest(layers, i + 1, digest, written \o layers[i].Digest)

\* The loop over manifest.Layers from layer i on (lines 361-371): each
\* digest is written to the hash, and the loop breaks at the first layer
\* with the digest looked for.
RECURSIVE HashLayers(_, _, _, _)
HashLayers(layers, i, digest, written) ==
    IF i > Len(layers) THEN [found |-> FALSE, written |-> written]
    ELSE IF layers[i].Digest = digest
    THEN [found |-> TRUE, written |-> written \o layers[i].Digest]
    ELSE HashLayers(layers, i + 1, digest, written \o layers[i].Digest)

\* What is returned after the loop (lines 373-377).
HashResult(loop) ==
    IF ~loop.found THEN Err(ErrDescriptorNotInManifest)
    ELSE Ok(Sha256(loop.written))

\* A function that returns the hash of what it wrote whether or not the
\* descriptor was found.
HashWithoutFoundCheck(manifest, descriptor) ==
    Ok(Sha256(HashLayers(manifest, 1, descriptor.Digest, Empty).written))

ComputeAggregateHash(manifest, descriptor) ==
    HashResult(HashLayers(manifest, 1, descriptor.Digest, Empty))

\* ------------------------------------------------------------------------
\* Collaborators of the build driver
\* ------------------------------------------------------------------------

\* buildCache.Lookup(name), with unchanged telling whether the fingerprint
\* stored with the entry equals the one computed now (recipe entry, base
\* chain and imports as they were when the entry was written). A hit needs
\* the artifact of the entry to exist still: the snapshot for a build-only
\* layer, the blob in the output layout for a regular one.
Lookup(c, l, unchanged, s, blobs) ==
    /\ c[l.Name].present
    /\ unchanged
    /\ IF l.BuildOnly THEN s[l.Name].present ELSE c[l.Name].Blob \in blobs

\* buildCache.Put(name, blob)
Put(c, name, blob) == [c EXCEPT ![name] = Entry(name, blob)]

\* Storage.Delete(name): errors are ignored by every caller.
Delete(s, name) == [s EXCEPT ![name] = NoBundle]

\* Storage.Snapshot(src, dst) and Storage.Restore(src, dst) copy bundle src
\* to dst; both need src to exist.
CopyBundle(s, src, dst) == [s EXCEPT ![dst] = s[src]]

\* The descriptor umoci repack leaves under the layer's name.
RepackDesc(name, b) == Desc("repack", name, b)

\* The descriptor mutator.Commit returns.
CommitDesc(name, b) == Desc("commit", name, b)

\* ------------------------------------------------------------------------
\* Build (build.go)
\* ------------------------------------------------------------------------

\* The layer being processed and its name (l and name of the loop).
CurLayer == recipe[idx]

\* The name of the layer the layer being processed is built on, its own
\* name when it is not built.
ParentName ==
    IF recipe[idx].From.Type = BuiltType THEN recipe[idx].From.Tag
    ELSE recipe[idx].Name

CurName == recipe[idx].Name

\* os := BaseLayerOpts{...} of Build: LayerType is not among the fields set,
\* so it keeps its zero value.
BaseLayerOpts(name, l) ==
    [Name |-> name, Target |-> Working, Layer |-> l, LayerType |-> ""]

\* A driver that leaves the loop on an error instead of returning it.
BreakOnError(e, env) ==
    /\ env => failures < MaxFailures
    /\ pc' = "GC"
    /\ result' = result
    /\ envFailed' = (envFailed \/ env)
    /\ failures' = IF env THEN failures + 1 ELSE failures

\* return err: Build returns e; env tells that e came from a collaborator.
Return(e, env) ==
    /\ env => failures < MaxFailures
    /\ pc' = "idle"
    /\ result' = e
    /\ envFailed' = (envFailed \/ env)
    /\ failures' = IF env THEN failures + 1 ELSE failures

\* continue, or the end of the loop body: the next layer of order, or the
\* final GC after the last one.
Continue ==
    /\ completed' = completed \cup {CurName}
    /\ IF idx < Len(recipe)
       THEN idx' = idx + 1 /\ pc' = "Import"
       ELSE idx' = idx /\ pc' = "GC"
    /\ UNCHANGED <<result, envFailed, failures>>

Goto(step) ==
    /\ pc' = step
    /\ UNCHANGED <<idx, result, envFailed, failures, completed>>

\* Lines 52-121: a new invocation. opts.NoCache removes the stacker
\* directory (build cache and layer-base cache); then the recipe, the
\* storage, the output layout and the cache are opened, and .working is
\* deleted.
StartBuild(noCache, ok) ==
    /\ pc = "idle"
    /\ build < MaxBuilds
    /\ build' = build + 1
    /\ prevRefs' = ociRefs
    /\ rerun' = (result = "ok" /\ ~noCache)
    /\ cache' = IF noCache THEN [n \in LayerNames |-> NoEntry] ELSE cache
    /\ baseCache' = IF noCache THEN {} ELSE baseCache
    /\ ops' = << >>
    /\ hit' = FALSE
    /\ hits' = {}
    /\ completed' = {}
    /\ idx' = 1
    /\ IF ok
       THEN /\ storage' = Delete(storage, Working)
            /\ pc' = "Import"
            /\ result' = "none"
            /\ envFailed' = FALSE
            /\ failures' = failures
       ELSE /\ failures < MaxFailures
            /\ storage' = storage
            /\ pc' = "idle"
            /\ result' = "setup failed"
            /\ envFailed' = TRUE
            /\ failures' = failures + 1
    /\ gcRan' = FALSE
    /\ UNCHANGED <<call, recipe, layerType, ociRefs, ociBlobs>>

\* Lines 122-142: sf.Get, ParseImport and Import stage the files of the layer.
Import(ok) ==
    /\ pc = "Import"
    /\ ops' = <<Op("Import", CurName)>>
    /\ hit' = FALSE
    /\ IF ok
       THEN Goto("CacheCheck")
       ELSE Return("Import", TRUE) /\ UNCHANGED <<idx, completed>>
    /\ UNCHANGED <<call, recipe, layerType, storage, ociRefs, ociBlobs, baseCache,
                   cache, build, hits, gcRan, prevRefs, rerun>>

\* A hit that is not followed by continue.
HitFallsThrough == Goto("PrepareWorking")

\* Line 160: a hit ends the iteration.
AfterHit == Continue

\* Line 154: the descriptor a hit publishes, cacheEntry.Blob.
PublishedDescriptor(entry) == entry.Blob

\* Lines 144-161: the cache lookup and, on a hit, the publication of the
\* cached output.
CacheCheck(unchanged, ok) ==
    /\ pc = "CacheCheck"
    /\ LET entry == cache[CurName]
       IN IF Lookup(cache, CurLayer, unchanged, storage, ociBlobs)
          THEN /\ hit' = TRUE
               /\ hits' = hits \cup {CurName}
               /\ IF CurLayer.BuildOnly
                  THEN IF entry.Name # CurName
                       THEN IF ok /\ storage[entry.Name].present
                            THEN /\ storage' = CopyBundle(storage, entry.Name, CurName)
                                 /\ ops' = Append(ops, Op("Snapshot", CurName))
                                 /\ AfterHit
                                 /\ UNCHANGED ociRefs
                            ELSE /\ Return("Snapshot", TRUE)
                                 /\ UNCHANGED <<storage, ops, ociRefs, idx, completed>>
                       ELSE /\ AfterHit
                            /\ UNCHANGED <<storage, ops, ociRefs>>
                  ELSE IF ok
                       THEN /\ ociRefs' = [ociRefs EXCEPT
                                               ![CurName] = PublishedDescriptor(entry)]
                            /\ ops' = Append(ops, OpD("UpdateReference", CurName,
                                                      PublishedDescriptor(entry)))
                            /\ AfterHit
                            /\ UNCHANGED storage
                       ELSE /\ Return("UpdateReference", TRUE)
                            /\ UNCHANGED <<storage, ops, ociRefs, idx, completed>>
          ELSE /\ Goto("PrepareWorking")
               /\ UNCHANGED <<hit, hits, storage, ops, ociRefs>>
    /\ rerun' = (rerun /\ unchanged)
    /\ UNCHANGED <<call, recipe, layerType, ociBlobs, baseCache, cache, build, gcRan,
                   prevRefs>>

\* A create that takes over the .working that is there.
ReusedWorking(s) == [s EXCEPT ![Working].present = TRUE]

\* Lines 172 and 178: storage after .working was deleted and created anew.
CreatedWorking(s) == [Delete(s, Working) EXCEPT ![Working] = EmptyBundle]

\* Lines 172-181: .working is deleted, then restored from the snapshot of
\* the parent (built) or created empty.
PrepareWorking(ok) ==
    /\ pc = "PrepareWorking"
    /\ LET from == CurLayer.From
           deleted == Delete(storage, Working)
       IN IF from.Type = BuiltType
          THEN IF ok /\ from.Tag \in DOMAIN storage /\ storage[from.Tag].present
               THEN /\ storage' = CopyBundle(deleted, from.Tag, Working)
                    /\ ops' = ops \o <<Op("Delete", Working), Op("Restore", from.Tag)>>
                    /\ Goto("BaseImport")
               ELSE /\ storage' = deleted
                    /\ ops' = Append(ops, Op("Delete", Working))
                    /\ Return("Restore", ~ok)
                    /\ UNCHANGED <<idx, completed>>
          ELSE IF ok
               THEN /\ storage' = CreatedWorking(storage)
                    /\ ops' = ops \o <<Op("Delete", Working), Op("Create", Working)>>
                    /\ Goto("BaseImport")
               ELSE /\ storage' = deleted
                    /\ ops' = Append(ops, Op("Delete", Working))
                    /\ Return("Create", TRUE)
                    /\ UNCHANGED <<idx, completed>>
    /\ UNCHANGED <<call, recipe, layerType, ociRefs, ociBlobs, baseCache, cache, build,
                   hit, hits, gcRan, prevRefs, rerun>>

\* Lines 183-186: GetBaseLayer(os, sf).
BaseImport(f) ==
    /\ pc = "BaseImport"
    /\ LET st == [refs |-> ociRefs, blobs |-> ociBlobs, base |-> baseCache,
                  working |-> storage[Working], ops |-> ops, err |-> ""]
           res == GetBaseLayer(BaseLayerOpts(CurName, CurLayer), recipe, st, f, build)
       IN /\ ociRefs' = res.refs
          /\ ociBlobs' = res.blobs
          /\ baseCache' = res.base
          /\ storage' = [storage EXCEPT ![Working] = res.working]
          /\ ops' = res.ops
          /\ IF res.err = ""
             THEN Goto("ApplyImports")
             ELSE Return(res.err, res.err \in ImportFailPoints)
                  /\ UNCHANGED <<idx, completed>>
    /\ UNCHANGED <<call, recipe, layerType, cache, build, hit, hits, gcRan, prevRefs,
                   rerun>>

\* Lines 188-196: NewApply and DoApply copy the imports into the rootfs.
ApplyImports(ok) ==
    /\ pc = "ApplyImports"
    /\ IF ok
       THEN /\ storage' = [storage EXCEPT
                              ![Working].files = @ \cup {Mark("apply", CurName)}]
            /\ ops' = Append(ops, Op("Apply", CurName))
            /\ Goto("RunCommands")
       ELSE /\ Return("Apply", TRUE)
            /\ UNCHANGED <<storage, ops, idx, completed>>
    /\ UNCHANGED <<call, recipe, layerType, ociRefs, ociBlobs, baseCache, cache, build,
                   hit, hits, gcRan, prevRefs, rerun>>

\* Lines 198-223: ParseRun and, when the layer has commands, the script is
\* written and Run executes it in .working; then the branch on l.BuildOnly.
RunCommands(ok) ==
    /\ pc = "RunCommands"
    /\ IF ok
       THEN /\ storage' = IF CurLayer.Run
                          THEN [storage EXCEPT
                                   ![Working].files = @ \cup {Mark("run", CurName)}]
                          ELSE storage
            /\ ops' = IF CurLayer.Run THEN Append(ops, Op("Run", CurName)) ELSE ops
            /\ Goto(IF CurLayer.BuildOnly THEN "SnapshotBuildOnly" ELSE "Repack")
       ELSE /\ Return("Run", TRUE)
            /\ UNCHANGED <<storage, ops, idx, completed>>
    /\ UNCHANGED <<call, recipe, layerType, ociRefs, ociBlobs, baseCache, cache, build,
                   hit, hits, gcRan, prevRefs, rerun>>

\* The name the snapshot of .working is stored under: the layer's.
SnapshotName == CurName

\* s.Delete(name) followed by s.Snapshot(".working", name), as done at lines
\* 224-227 and 396-399.
DeleteAndSnapshot(ok, next) ==
    /\ ops' = ops \o <<Op("Delete", SnapshotName)>>
                  \o (IF ok THEN <<Op("Snapshot", SnapshotName)>> ELSE << >>)
    /\ IF ok
       THEN /\ storage' = CopyBundle(Delete(storage, SnapshotName), Working,
                                     SnapshotName)
            /\ Goto(next)
       ELSE /\ storage' = Delete(storage, SnapshotName)
            /\ Return("Snapshot", TRUE)
            /\ UNCHANGED <<idx, completed>>

\* Lines 223-227: the snapshot of a build-only layer.
SnapshotBuildOnly(ok) ==
    /\ pc = "SnapshotBuildOnly"
    /\ DeleteAndSnapshot(ok, "PutBuildOnly")
    /\ UNCHANGED <<call, recipe, layerType, ociRefs, ociBlobs, baseCache, cache, build,
                   hit, hits, gcRan, prevRefs, rerun>>

\* Lines 229-238: the cache entry of a build-only layer, with the zero
\* descriptor.
PutBuildOnly(ok) ==
    /\ pc = "PutBuildOnly"
    /\ IF ok
       THEN /\ cache' = Put(cache, CurName, ZeroDesc)
            /\ ops' = Append(ops, OpD("Put", CurName, ZeroDesc))
            /\ Continue
       ELSE /\ Return("Put", TRUE)
            /\ UNCHANGED <<cache, ops, idx, completed>>
    /\ UNCHANGED <<call, recipe, layerType, storage, ociRefs, ociBlobs, baseCache, build,
                   hit, hits, gcRan, prevRefs, rerun>>

\* Lines 241-257: the switch on opts.LayerType; umoci repack for "tar", an
\* error for every other layer type.
Repack(ok) ==
    /\ pc = "Repack"
    /\ IF layerType = "tar"
       THEN IF ok
            THEN LET d == RepackDesc(CurName, build)
                 IN /\ ociRefs' = [ociRefs EXCEPT ![CurName] = d]
                    /\ ociBlobs' = ociBlobs \cup {d}
                    /\ storage' = [storage EXCEPT ![Working].meta = d,
                                                  ![Working].mtree = d]
                    /\ ops' = Append(ops, OpD("Repack", CurName, d))
                    /\ Goto("ConfigMutate")
            ELSE /\ Return("Repack", TRUE)
                 /\ UNCHANGED <<ociRefs, ociBlobs, storage, ops, idx, completed>>
       ELSE /\ Return("unknown layer type", FALSE)
            /\ UNCHANGED <<ociRefs, ociBlobs, storage, ops, idx, completed>>
    /\ UNCHANGED <<call, recipe, layerType, baseCache, cache, build, hit, hits, gcRan,
                   prevRefs, rerun>>

\* Lines 258-369: the reference is resolved and the image config, meta data
\* and annotations are set on the mutator; nothing is written yet.
ConfigMutate(ok) ==
    /\ pc = "ConfigMutate"
    /\ IF ociRefs[CurName] = ZeroDesc
       THEN Return("ResolveReference", FALSE) /\ UNCHANGED <<ops, idx, completed>>
       ELSE IF ok
       THEN ops' = Append(ops, Op("ConfigMutate", CurName)) /\ Goto("Commit")
       ELSE Return("ConfigMutate", TRUE) /\ UNCHANGED <<ops, idx, completed>>
    /\ UNCHANGED <<call, recipe, layerType, storage, ociRefs, ociBlobs, baseCache,
                   cache, build, hit, hits, gcRan, prevRefs, rerun>>

CommitFailPoints == {"Commit", "UpdateReference"}

\* Lines 371-379: mutator.Commit writes the new manifest, UpdateReference
\* points the layer's name at it.
Commit(f) ==
    /\ pc = "Commit"
    /\ LET d == CommitDesc(CurName, build)
       IN IF f = "Commit"
          THEN /\ Return(f, TRUE)
               /\ UNCHANGED <<ociRefs, ociBlobs, ops, idx, completed>>
          ELSE IF f = "UpdateReference"
          THEN /\ ociBlobs' = ociBlobs \cup {d}
               /\ ops' = Append(ops, OpD("Commit", CurName, d))
               /\ Return(f, TRUE)
               /\ UNCHANGED <<ociRefs, idx, completed>>
          ELSE /\ ociBlobs' = ociBlobs \cup {d}
               /\ ociRefs' = [ociRefs EXCEPT ![CurName] = d]
               /\ ops' = ops \o <<OpD("Commit", CurName, d),
                                  OpD("UpdateReference", CurName, d)>>
               /\ Goto("Mtree")
    /\ UNCHANGED <<call, recipe, layerType, storage, baseCache, cache, build, hit, hits,
                   gcRan, prevRefs, rerun>>

MtreeFailPoints == {"updateBundleMtree", "WriteBundleMeta"}

\* Lines 381-393: the mtree file of .working is renamed after the new
\* descriptor and the bundle meta is written.
Mtree(f) ==
    /\ pc = "Mtree"
    /\ LET d == CommitDesc(CurName, build)
       IN IF f = "updateBundleMtree"
          THEN /\ Return(f, TRUE)
               /\ UNCHANGED <<storage, ops, idx, completed>>
          ELSE IF f = "WriteBundleMeta"
          THEN /\ storage' = [storage EXCEPT ![Working].mtree = d]
               /\ ops' = Append(ops, OpD("Mtree", CurName, d))
               /\ Return(f, TRUE)
               /\ UNCHANGED <<idx, completed>>
          ELSE /\ storage' = [storage EXCEPT ![Working].mtree = d,
                                             ![Working].meta = d]
               /\ ops' = Append(ops, OpD("Mtree", CurName, d))
               /\ Goto("Snapshot")
    /\ UNCHANGED <<call, recipe, layerType, ociRefs, ociBlobs, baseCache, cache, build,
                   hit, hits, gcRan, prevRefs, rerun>>

\* Lines 395-401: the snapshot of a regular layer.
Snapshot(ok) ==
    /\ pc = "Snapshot"
    /\ DeleteAndSnapshot(ok, "Put")
    /\ UNCHANGED <<call, recipe, layerType, ociRefs, ociBlobs, baseCache, cache, build,
                   hit, hits, gcRan, prevRefs, rerun>>

PutFailPoints == {"ResolveReference", "Put"}

\* The descriptor umoci repack had left under the layer's name, before the
\* image config was committed.
RepackedDescriptor == RepackDesc(CurName, build)

\* Lines 403-408: the descriptor the layer's name resolves to now.
PutDescriptor == ociRefs[CurName]

\* Lines 403-411: the cache entry of a regular layer, with the descriptor
\* the layer's name resolves to.
CachePut(f) ==
    /\ pc = "Put"
    /\ IF f = "ResolveReference" \/ ociRefs[CurName] = ZeroDesc
       THEN /\ Return("ResolveReference", f = "ResolveReference")
            /\ UNCHANGED <<cache, ops, idx, completed>>
       ELSE IF f = "Put"
       THEN /\ Return(f, TRUE)
            /\ UNCHANGED <<cache, ops, idx, completed>>
       ELSE /\ cache' = Put(cache, CurName, PutDescriptor)
            /\ ops' = Append(ops, OpD("Put", CurName, PutDescriptor))
            /\ Continue
    /\ UNCHANGED <<call, recipe, layerType, storage, ociRefs, ociBlobs, baseCache, build,
                   hit, hits, gcRan, prevRefs, rerun>>

\* Lines 413-419: the final GC of the output layout; Build returns its
\* error.
FinalGC(ok) ==
    /\ pc = "GC"
    /\ gcRan' = TRUE
    /\ pc' = "idle"
    /\ IF ok
       THEN /\ ociBlobs' = ociBlobs \cap Referenced(ociRefs)
            /\ result' = "ok"
            /\ envFailed' = envFailed
            /\ failures' = failures
       ELSE /\ failures < MaxFailures
            /\ ociBlobs' = ociBlobs
            /\ result' = "GC"
            /\ envFailed' = TRUE
            /\ failures' = failures + 1
    /\ UNCHANGED <<call, recipe, layerType, storage, ociRefs, baseCache, cache, idx,
                   build, ops, hit, hits, completed, prevRefs, rerun>>

\* The outcomes a collaborator call can have: success and, while the
\* failure bound allows it, failure.
Outcomes == IF failures < MaxFailures THEN BOOLEAN ELSE {TRUE}

\* The call that fails among points, or "none".
Failing(points) ==
    IF failures < MaxFailures THEN points \cup {"none"} ELSE {"none"}

Next ==
    \/ \E noCache \in BOOLEAN, ok \in Outcomes : StartBuild(noCache, ok)
    \/ \E ok \in Outcomes : Import(ok)
    \/ \E unchanged \in BOOLEAN, ok \in Outcomes : CacheCheck(unchanged, ok)
    \/ \E ok \in Outcomes : PrepareWorking(ok)
    \/ \E f \in Failing(ImportFailPoints) \cup CacheGCFailPoints : BaseImport(f)
    \/ \E ok \in Outcomes : ApplyImports(ok)
    \/ \E ok \in Outcomes : RunCommands(ok)
    \/ \E ok \in Outcomes : SnapshotBuildOnly(ok)
    \/ \E ok \in Outcomes : PutBuildOnly(ok)
    \/ \E ok \in Outcomes : Repack(ok)
    \/ \E ok \in Outcomes : ConfigMutate(ok)
    \/ \E f \in Failing(CommitFailPoints) : Commit(f)
    \/ \E f \in Failing(MtreeFailPoints) : Mtree(f)
    \/ \E ok \in Outcomes : Snapshot(ok)
    \/ \E f \in Failing(PutFailPoints) : CachePut(f)
    \/ \E ok \in Outcomes : FinalGC(ok)

Spec == Init /\ [][Next]_vars

\* ------------------------------------------------------------------------
\* The functions of the package called on their own, outside Build
\* ------------------------------------------------------------------------

\* A call about to be made.
Pending(fn, in) == [fn |-> fn, in |-> in, done |-> FALSE]

\* The call after it returned out.
Returned(c, out) == [fn |-> c.fn, in |-> c.in, done |-> TRUE, out |-> out]

HashCalls ==
    {Pending("ComputeAggregateHash",
             [manifest |-> m, descriptor |-> Descriptor(d)]) :
        m \in Manifests, d \in Digests}

\* The characters that follow the prefix of a URL: separators, a letter and
\* a percent sign (never followed by two hexadecimal digits).
UrlChars == {":", "/", "x", "%"}

RECURSIVE StringsOfLen(_)
StringsOfLen(n) ==
    IF n = 0 THEN {Empty}
    ELSE {Append(t, c) : t \in StringsOfLen(n - 1), c \in UrlChars}

\* URLs with the prefix docker, with the prefix oci, and with neither.
Urls ==
    {p \o t : p \in {sDocker, sOci, Empty},
              t \in UNION {StringsOfLen(n) : n \in 0..MaxUrlSuffix}}

TagCalls == {Pending("tagFromSkopeoUrl", u) : u \in Urls}

\* Recipe r without its k-th layer (all of r when k = 0): the layers built
\* on the removed one name a layer that is absent.
Without(r, k) == [j \in 1..(Len(r) - (IF k = 0 THEN 0 ELSE 1)) |->
                     IF k = 0 \/ j < k THEN r[j] ELSE r[j + 1]]

\* The recipes given to getBuilt: the last layer is built, and the layers it
\* descends from may be absent.
GetBuiltRecipes ==
    {Without(r, k) : r \in {q \in RecipesOfLen(MaxChain) :
                                q[MaxChain].From.Type = BuiltType},
                     k \in 0..(MaxChain - 1)}

\* The collaborator calls of getBuilt that can fail.
GetBuiltFailPoints == {"none", "ImageCopy output", "DeleteReference"}

\* getBuilt is called for the last layer of the recipe, with every reference
\* of the output layout set, and an empty or a full layer-base cache.
GetBuiltCalls ==
    {Pending("getBuilt",
             [o |-> BaseLayerOpts(r[Len(r)].Name, r[Len(r)]), sf |-> r, f |-> f,
              st |-> [refs |-> [n \in RefNames |-> CommitDesc(n, 1)],
                      blobs |-> {}, base |-> base, working |-> EmptyBundle,
                      ops |-> << >>, err |-> ""]]) :
        r \in GetBuiltRecipes, f \in GetBuiltFailPoints,
        base \in {{}, {<<"a">>, <<"x">>}}}

\* The calls of runSkopeo that can fail before its deferred function runs.
RunSkopeoFailPoints == {"none", "MkdirAll", "ImageCopy cache", "ImageCopy output"}

\* runSkopeo is called with a docker URL, an oci URL with and without a tag
\* and a URL of neither kind, for both layer types, with and without the
\* copy to the output layout; any one call before the deferred function may
\* fail, and so may either call of the deferred function.
RunSkopeoCalls ==
    {Pending("runSkopeo",
             [toImport |-> u,
              o |-> [BaseLayerOpts(<<"a">>, << >>) EXCEPT !.LayerType = t],
              copyToOutput |-> c, f |-> f, g |-> g,
              st |-> [refs |-> [n \in RefNames |-> ZeroDesc], blobs |-> {},
                      base |-> {}, working |-> EmptyBundle, ops |-> << >>,
                      err |-> ""]]) :
        u \in DockerUrls \cup {sOciColon \o v : v \in OciUrls} \cup {<<"x">>},
        t \in LayerTypes, c \in BOOLEAN, f \in RunSkopeoFailPoints,
        g \in CacheGCFailPoints \cup {"none"}}

\* GetBaseLayer is called for a layer with a docker or an oci source, for
\* both layer types, from an empty output layout and layer-base cache; any
\* one collaborator call may fail.
GetBaseLayerCalls ==
    {Pending("GetBaseLayer",
             [o |-> [BaseLayerOpts(l.Name, l) EXCEPT !.LayerType = t],
              sf |-> <<l>>, f |-> f,
              st |-> [refs |-> [n \in RefNames |-> ZeroDesc], blobs |-> {},
                      base |-> {}, working |-> EmptyBundle, ops |-> << >>,
                      err |-> ""]]) :
        l \in {q[1] : q \in {r \in RecipesOfLen(1) :
                                 r[1].From.Type \in {DockerType, OCIType}}},
        t \in LayerTypes,
        f \in ImportFailPoints \cup CacheGCFailPoints \cup {"none"}}

Calls ==
    HashCalls \cup TagCalls \cup GetBuiltCalls \cup RunSkopeoCalls
    \cup GetBaseLayerCalls

FnInit ==
    /\ recipe = << >>
    /\ layerType = "tar"
    /\ Fresh
    /\ call \in Calls

\* The variables of Build, which a call outside Build leaves alone.
buildVars ==
    <<recipe, layerType, storage, ociRefs, ociBlobs, baseCache, cache, pc, idx,
      build, result, envFailed, failures, ops, hit, hits, completed, gcRan, prevRefs,
      rerun>>

CallComputeAggregateHash ==
    /\ call.fn = "ComputeAggregateHash"
    /\ ~call.done
    /\ call' = Returned(call, ComputeAggregateHash(call.in.manifest,
                                                   call.in.descriptor))
    /\ UNCHANGED buildVars

CallTagFromSkopeoUrl ==
    /\ call.fn = "tagFromSkopeoUrl"
    /\ ~call.done
    /\ call' = Returned(call, tagFromSkopeoUrl(call.in))
    /\ UNCHANGED buildVars

CallGetBuilt ==
    /\ call.fn = "getBuilt"
    /\ ~call.done
    /\ call' = Returned(call, getBuilt(call.in.o, call.in.sf, call.in.st, call.in.f))
    /\ UNCHANGED buildVars

CallRunSkopeo ==
    /\ call.fn = "runSkopeo"
    /\ ~call.done
    /\ call' = Returned(call, runSkopeo(call.in.toImport, call.in.o,
                                        call.in.copyToOutput, call.in.st,
                                        call.in.f, call.in.g))
    /\ UNCHANGED buildVars

CallGetBaseLayer ==
    /\ call.fn = "GetBaseLayer"
    /\ ~call.done
    /\ call' = Returned(call, GetBaseLayer(call.in.o, call.in.sf, call.in.st,
                                           call.in.f, 1))
    /\ UNCHANGED buildVars

FnNext ==
    \/ CallComputeAggregateHash
    \/ CallTagFromSkopeoUrl
    \/ CallGetBuilt
    \/ CallRunSkopeo
    \/ CallGetBaseLayer

FnSpec == FnInit /\ [][FnNext]_vars

\* ------------------------------------------------------------------------
\* Properties
\* ------------------------------------------------------------------------

\* Build has returned success.
Succeeded == pc = "idle" /\ result = "ok"

LayerIndexes == 1..Len(recipe)

\* The reference name resolves in the output OCI layout.
Resolves(name) == ociRefs[name] # ZeroDesc

\* C1: after Build returns success, every layer of the recipe has a snapshot
\* named after it in storage, and the name of every layer that is not
\* build-only resolves in the output OCI layout.
C1_SuccessPublishesEveryLayer ==
    Succeeded =>
        \A i \in LayerIndexes :
            /\ storage[recipe[i].Name].present
            /\ ~recipe[i].BuildOnly => Resolves(recipe[i].Name)

\* The names of the layers of the recipe.
RecipeNames == {recipe[i].Name : i \in LayerIndexes}

\* The reference name holds an imported base image.
IsBaseImport(name) == ociRefs[name].k = "base"

\* C2: after a successful Build no reference of the output OCI layout is a
\* base import: every reference is named after a recipe layer and none
\* points at a base image copied in by the importer.
C2_NoBaseImportReference ==
    Succeeded =>
        \A n \in RefNames :
            Resolves(n) => n \in RecipeNames /\ ~IsBaseImport(n)

\* The iteration of layer i has just completed: Build is about to start the
\* next layer or the final GC, and ops still lists what the iteration did.
IterationDone(i) ==
    \/ pc = "Import" /\ idx = i + 1
    \/ pc = "GC" /\ idx = i

\* An operation of the current iteration wrote the reference name.
WritesReference(o, name) ==
    o.op \in {"UpdateReference", "Repack"} /\ o.arg = name

\* C3: a build-only layer is never committed to the output OCI layout: its
\* iteration writes no reference under its name, and when the iteration has
\* completed the name does not resolve; the layer's outputs are its snapshot
\* and a cache entry with the zero descriptor.
C3_BuildOnlyNeverCommitted ==
    \A i \in LayerIndexes :
        recipe[i].BuildOnly =>
            /\ (idx = i /\ pc # "idle") =>
                   \A k \in 1..Len(ops) : ~WritesReference(ops[k], recipe[i].Name)
            /\ IterationDone(i) =>
                   /\ ~Resolves(recipe[i].Name)
                   /\ storage[recipe[i].Name].present
                   /\ cache[recipe[i].Name] = Entry(recipe[i].Name, ZeroDesc)

\* What a hit publishes for the current layer with cache entry e: the
\* cached descriptor under the layer's name, or for a build-only layer a
\* snapshot copy when the cached name differs from the layer's.
PublishOps(e) ==
    IF CurLayer.BuildOnly
    THEN IF e.Name # CurName THEN <<Op("Snapshot", CurName)>> ELSE << >>
    ELSE <<OpD("UpdateReference", CurName, e.Blob)>>

\* C4: an iteration whose cache lookup hits only publishes the cached
\* output and moves to the next layer: .working, the build cache, the
\* layer-base cache and the blobs are left alone, the only reference written
\* is the layer's name with the cached descriptor, and no importer, apply,
\* run, repack or cache put is performed.
C4_HitShortCircuits ==
    [][(pc = "CacheCheck" /\ hit') =>
          /\ storage'[Working] = storage[Working]
          /\ cache' = cache
          /\ baseCache' = baseCache
          /\ ociBlobs' = ociBlobs
          /\ result' = "none" =>
                /\ ops' = ops \o PublishOps(cache[CurName])
                /\ ops = <<Op("Import", CurName)>>
                /\ ociRefs' = IF CurLayer.BuildOnly THEN ociRefs
                              ELSE [ociRefs EXCEPT ![CurName] = cache[CurName].Blob]
                /\ CurLayer.BuildOnly /\ cache[CurName].Name = CurName
                       => storage' = storage
                /\ completed' = completed \cup {CurName}
                /\ pc' = IF idx < Len(recipe) THEN "Import" ELSE "GC"
          /\ result' # "none" =>
                /\ pc' = "idle"
                /\ ociRefs' = ociRefs
                /\ storage' = storage]_vars

\* A regular layer's iteration has just ended in a cache hit.
C4_Witness ==
    \E i \in LayerIndexes :
        /\ IterationDone(i)
        /\ hit
        /\ ~recipe[i].BuildOnly
        /\ ops = <<Op("Import", recipe[i].Name),
                   OpD("UpdateReference", recipe[i].Name, cache[recipe[i].Name].Blob)>>

\* C5: when a Build with layer type tar follows a successful Build of the
\* same recipe, with the caches kept and no input changed, and succeeds,
\* every layer that is not build-only resolves to the descriptor it
\* resolved to when the previous Build returned.
C5_SecondBuildIdempotent ==
    (Succeeded /\ rerun /\ layerType = "tar") =>
        \A i \in LayerIndexes :
            ~recipe[i].BuildOnly =>
                /\ Resolves(recipe[i].Name)
                /\ ociRefs[recipe[i].Name] = prevRefs[recipe[i].Name]

\* The importer has returned success for layer i.
BaseImported(i) == idx = i /\ pc = "ApplyImports"

\* Whether the base of layer l is to be copied, by contract, to the output
\* layout in a Build with layer type t.
CopyExpected(l, t) ==
    IF l.From.Type = OCIType THEN ~l.BuildOnly
    ELSE ~l.BuildOnly /\ t = "tar"

\* C6: for a layer whose base is oci or docker the importer copies the base
\* image into the layer-base cache, then unpacks it, and in between copies
\* it to the output OCI layout exactly when the layer is not build-only
\* (oci), or not build-only and the layer type of the Build is tar (docker).
C6_BaseCopiedToOutput ==
    \A i \in LayerIndexes :
        (BaseImported(i) /\ recipe[i].From.Type \in {OCIType, DockerType}) =>
            \E p, q \in 1..Len(ops) :
                /\ p < q
                /\ ops[p].op = "ImageCopy cache"
                /\ ops[q].op = "unpack"
                /\ (\E r \in (p + 1)..(q - 1) : ops[r].op = "ImageCopy output")
                       <=> CopyExpected(recipe[i], layerType)

\* C7: a Build with layer type squashfs of the recipe with the single
\* docker-based regular layer succeeds (when no collaborator fails), and
\* the layer's reference then points at a manifest with exactly one layer,
\* of the squashfs media type, whose digest is the only diff-ID of the
\* config.
C7_SquashfsDockerLayer ==
    (/\ pc = "idle"
     /\ build > 0
     /\ ~envFailed
     /\ layerType = "squashfs"
     /\ Len(recipe) = 1
     /\ recipe[1].From.Type = DockerType
     /\ ~recipe[1].BuildOnly) =>
        /\ result = "ok"
        /\ Resolves(recipe[1].Name)
        /\ LET m == ManifestOf(ociRefs[recipe[1].Name])
           IN /\ Len(m.Layers) = 1
              /\ m.Layers[1].MediaType = MediaTypeLayerSquashfs
              /\ m.DiffIDs = <<m.Layers[1].Digest>>

\* Build has returned an error.
Failed == pc = "idle" /\ result \notin {"none", "ok"}

\* C8: when a step of a layer's pipeline fails, Build returns the error at
\* once: the layer is not completed, the position in the order does not
\* advance, no cache entry is written, the final GC has not run, and after
\* the return nothing happens but a new invocation; the final GC is reached
\* only from the last layer, by a step that did not fail.
C8_FailureAbortsBuild ==
    [][/\ (failures' > failures /\ pc \notin {"idle", "GC"}) => pc' = "idle"
       /\ (pc \notin {"idle", "GC"} /\ pc' \in {"idle", "GC"}) =>
              \/ /\ pc' = "GC"
                 /\ failures' = failures
                 /\ idx = Len(recipe)
                 /\ completed' = completed \cup {CurName}
              \/ /\ pc' = "idle"
                 /\ result' \notin {"none", "ok"}
                 /\ ~gcRan'
                 /\ idx' = idx
                 /\ completed' = completed
                 /\ cache' = cache
       /\ Failed => build' = build + 1]_vars

\* The run step of the first of two layers has failed and Build has
\* returned.
C8_Witness ==
    /\ Failed
    /\ result = "Run"
    /\ Len(recipe) = 2
    /\ idx = 1
    /\ completed = {}
    /\ ~gcRan

\* The layers whose iteration has finished, by the position of Build.
Finished ==
    {recipe[j].Name : j \in 1..(IF pc = "GC" THEN idx ELSE idx - 1)}

\* C9: layers are processed one at a time in dependency order, and when a
\* built layer reaches the restore of .working its parent has completed its
\* iteration in this invocation and the parent's snapshot exists.
C9_SequentialAndParentSnapshotted ==
    /\ pc # "idle" => completed = Finished
    /\ \A i \in LayerIndexes :
           (pc = "PrepareWorking" /\ idx = i
            /\ recipe[i].From.Type = BuiltType) =>
               /\ recipe[i].From.Tag \in completed
               /\ storage[recipe[i].From.Tag].present

\* C10: when every layer iteration succeeded, Build returns success whether
\* or not the final GC of the output OCI layout failed.
C10_FinalGCBestEffort == (pc = "idle" /\ gcRan) => result = "ok"

\* The storage operations of Build.
StorageOps == {"Delete", "Create", "Restore", "Snapshot"}

\* C11: when Build returns the bad-OCI-tag error of a layer whose URL is
\* malformed, no storage operation (Delete, Create, Restore, Snapshot) has
\* been performed in that layer's iteration.
C11_MalformedOciAbortsBeforeStorage ==
    (pc = "idle" /\ result = ErrBadOCITag) =>
        \A k \in 1..Len(ops) : ops[k].op \notin StorageOps

\* The hash call has returned.
HashReturned == call.fn = "ComputeAggregateHash" /\ call.done

\* Some layer of manifest m has the digest of descriptor d.
InManifest(m, d) == \E i \in 1..Len(m) : m[i].Digest = d.Digest

\* C12: ComputeAggregateHash fails with the descriptor-not-in-manifest error
\* and returns no hash when no layer of the manifest has the digest of the
\* descriptor (so always for a manifest without layers), and succeeds when
\* some layer has it.
C12_HashFailsIffDescriptorAbsent ==
    HashReturned =>
        IF InManifest(call.in.manifest, call.in.descriptor)
        THEN call.out.err = ""
        ELSE call.out = Err(ErrDescriptorNotInManifest)

\* The hash was asked of a manifest without layers and the call failed.
C12_Witness ==
    /\ HashReturned
    /\ call.in.manifest = << >>
    /\ call.out.err = ErrDescriptorNotInManifest

\* The digests of layers 1..k of m, concatenated in order.
RECURSIVE DigestsUpTo(_, _)
DigestsUpTo(m, k) ==
    IF k = 0 THEN Empty ELSE DigestsUpTo(m, k - 1) \o m[k].Digest

\* The first index of m whose layer has the digest of d.
FirstIndex(m, d) ==
    CHOOSE k \in 1..Len(m) :
        /\ m[k].Digest = d.Digest
        /\ \A j \in 1..(k - 1) : m[j].Digest # d.Digest

\* C13: a successful ComputeAggregateHash returns the hash of the digests of
\* the layers up to the first one with the digest of the descriptor, in
\* order; every manifest that agrees with this one on those layers gives
\* the same result, and so does this manifest with a layer appended.
C13_HashOfPrefix ==
    (HashReturned /\ call.out.err = "") =>
        LET m == call.in.manifest
            d == call.in.descriptor
            k == FirstIndex(m, d)
        IN /\ call.out.val = Sha256(DigestsUpTo(m, k))
           /\ \A m2 \in Manifests :
                  (Len(m2) >= k /\ SubSeq(m2, 1, k) = SubSeq(m, 1, k)) =>
                      ComputeAggregateHash(m2, d) = call.out
           /\ \A x \in Digests :
                  ComputeAggregateHash(Append(m, Descriptor(x)), d) = call.out

\* The hash of the second of three layers was computed.
C13_Witness ==
    /\ HashReturned
    /\ call.out.err = ""
    /\ Len(call.in.manifest) = 3
    /\ FirstIndex(call.in.manifest, call.in.descriptor) = 2

\* The tag parser has returned.
TagReturned == call.fn = "tagFromSkopeoUrl" /\ call.done

\* Number of colon-delimited fields of s.
Fields(s) == Cardinality({i \in 1..Len(s) : s[i] = ":"}) + 1

\* The last colon-delimited field of s.
LastField(s) == SubSeq(s, LastIndex(s, ":", Len(s)) + 1, Len(s))

\* The part of s before any colon.
BeforeColon(s) ==
    IF IndexFrom(s, ":", 1) = 0 THEN s
    ELSE SubSeq(s, 1, IndexFrom(s, ":", 1) - 1)

\* The tag of a docker URL with host and path as parsed: the basename of
\* the path before any colon or, when the path is empty, the host before
\* any colon.
DockerTagOf(u) ==
    IF u.Path # Empty THEN PathBase(BeforeColon(u.Path))
    ELSE BeforeColon(u.Host)

\* The result for a URL that starts with oci: the third of exactly three
\* fields, the bad-OCI-tag error for any other number of fields.
OciResult(thing) ==
    IF Fields(thing) = 3 THEN Ok(LastField(thing)) ELSE Err(ErrBadOCITag)

\* C14 (as stated): tagFromSkopeoUrl returns, for a URL starting with oci,
\* the third of exactly three colon-delimited fields and the bad-OCI-tag
\* error otherwise; for a URL starting with docker, the basename of the path
\* before any colon or, with an empty path, the host before any colon; for
\* every other URL the invalid-image-url error and no tag.
C14_TagDispatch ==
    TagReturned =>
        IF HasPrefix(call.in, sOci) THEN call.out = OciResult(call.in)
        ELSE IF HasPrefix(call.in, sDocker)
        THEN call.out = Ok(DockerTagOf(UrlParse(call.in)))
        ELSE call.out = Err(ErrInvalidImageUrl)

\* C14 (amended): as stated, except that for a URL starting with docker
\* which url.Parse rejects the function returns the error of url.Parse and
\* no tag.
C14_TagDispatchOfParsedUrl ==
    TagReturned =>
        IF HasPrefix(call.in, sOci) THEN call.out = OciResult(call.in)
        ELSE IF HasPrefix(call.in, sDocker)
        THEN IF UrlParse(call.in).err # ""
             THEN call.out = Err(UrlParse(call.in).err)
             ELSE call.out = Ok(DockerTagOf(UrlParse(call.in)))
        ELSE call.out = Err(ErrInvalidImageUrl)

\* url.Parse rejected a docker URL with an authority, and the function
\* returned its error.
C14_Witness ==
    /\ TagReturned
    /\ HasPrefix(call.in, sDocker \o <<":", "/", "/">>)
    /\ call.out = Err(ErrUrlEscape)

\* C15: on a cache miss, when the base importer is about to be called,
\* .working is an empty bundle for a layer that is not built and equals the
\* snapshot named from.tag for a built layer: nothing an earlier iteration
\* left in .working is in it.
C15_WorkingFresh ==
    \A i \in LayerIndexes :
        (pc = "BaseImport" /\ idx = i) =>
            IF recipe[i].From.Type = BuiltType
            THEN /\ storage[recipe[i].From.Tag].present
                 /\ storage[Working] = storage[recipe[i].From.Tag]
            ELSE storage[Working] = EmptyBundle

\* The importer is about to be called for a second layer that is not built,
\* after the first layer was rebuilt and left its content in .working.
C15_Witness ==
    /\ pc = "BaseImport"
    /\ idx = 2
    /\ recipe[2].From.Type # BuiltType
    /\ completed = {recipe[1].Name}
    /\ hits = {}
    /\ storage[recipe[1].Name].files # {}
    /\ storage[Working] = EmptyBundle

\* The steps of an iteration after a cache miss.
MissSteps ==
    {"PrepareWorking", "BaseImport", "ApplyImports", "RunCommands",
     "SnapshotBuildOnly", "PutBuildOnly", "Repack", "ConfigMutate", "Commit",
     "Mtree", "Snapshot", "Put"}

\* The step that follows step p of a layer when p succeeds.
StepAfter(p, buildOnly, last) ==
    CASE p = "PrepareWorking" -> "BaseImport"
      [] p = "BaseImport" -> "ApplyImports"
      [] p = "ApplyImports" -> "RunCommands"
      [] p = "RunCommands" -> IF buildOnly THEN "SnapshotBuildOnly" ELSE "Repack"
      [] p = "SnapshotBuildOnly" -> "PutBuildOnly"
      [] p = "Repack" -> "ConfigMutate"
      [] p = "ConfigMutate" -> "Commit"
      [] p = "Commit" -> "Mtree"
      [] p = "Mtree" -> "Snapshot"
      [] p = "Snapshot" -> "Put"
      [] p \in {"PutBuildOnly", "Put"} -> IF last THEN "GC" ELSE "Import"

\* C16: after a cache miss the steps of a layer run in the fixed order
\* PrepareWorking, BaseImport, ApplyImports, RunCommands, then Snapshot and
\* Put (build-only) or Repack, ConfigMutate, Commit, Mtree, Snapshot and Put
\* (regular); a step either aborts the build or is followed by the next one.
\* The cache is written only by the Put that ends the iteration, right after
\* the snapshot of .working under the layer's name, with the zero descriptor
\* for a build-only layer and the descriptor the name resolves to for a
\* regular one; an iteration that fails writes no cache entry.
C16_MissPipelineOrder ==
    [][(pc \in MissSteps) =>
          /\ pc' \in {"idle", StepAfter(pc, CurLayer.BuildOnly, idx = Len(recipe))}
          /\ pc' = "idle" => cache' = cache /\ result' # "none"
          /\ pc \notin {"PutBuildOnly", "Put"} => cache' = cache
          /\ (pc \in {"PutBuildOnly", "Put"} /\ pc' # "idle") =>
                /\ pc = (IF CurLayer.BuildOnly THEN "PutBuildOnly" ELSE "Put")
                /\ ops[Len(ops)] = Op("Snapshot", CurName)
                /\ storage[CurName].present
                /\ storage[CurName] = storage[Working]
                /\ cache' = [cache EXCEPT ![CurName] =
                                Entry(CurName, IF CurLayer.BuildOnly THEN ZeroDesc
                                               ELSE ociRefs[CurName])]
                /\ completed' = completed \cup {CurName}]_vars

\* A regular layer built after a cache miss has just been put in the cache
\* with the descriptor its name resolves to, and a build-only layer before
\* it with the zero descriptor.
C16_Witness ==
    /\ pc = "GC" /\ idx = 2 /\ hits = {}
    /\ recipe[1].BuildOnly /\ ~recipe[2].BuildOnly
    /\ cache[recipe[1].Name] = Entry(recipe[1].Name, ZeroDesc)
    /\ ociRefs[recipe[2].Name] # ZeroDesc
    /\ cache[recipe[2].Name] = Entry(recipe[2].Name, ociRefs[recipe[2].Name])
    /\ ops[Len(ops)] = OpD("Put", recipe[2].Name, ociRefs[recipe[2].Name])

\* getBuilt has returned.
GetBuiltReturned == call.fn = "getBuilt" /\ call.done

\* The layer reached from layer i after n links from.tag, or 0 when a link
\* names a layer absent from the recipe.
RECURSIVE Link(_, _, _)
Link(sf, i, n) ==
    IF n = 0 THEN i
    ELSE IF Link(sf, i, n - 1) = 0 THEN 0
    ELSE Get(sf, sf[Link(sf, i, n - 1)].From.Tag)

\* The first ancestor of layer i that is not built, or 0 when a link of the
\* chain up to it names an absent layer.
Ancestor(sf, i) ==
    Link(sf, i, CHOOSE n \in 1..Len(sf) :
                    /\ Link(sf, i, n) = 0 \/ sf[Link(sf, i, n)].From.Type # BuiltType
                    /\ \A m \in 1..(n - 1) :
                           /\ Link(sf, i, m) # 0
                           /\ sf[Link(sf, i, m)].From.Type = BuiltType)

\* The ancestor is of type docker or oci and build-only.
CopiesBase(l) == l.From.Type \in {DockerType, OCIType} /\ l.BuildOnly

\* The state after the base image was copied to the output layout under tag
\* and the tag deleted from it.
CopiedAndDeleted(st, tag) ==
    [st EXCEPT !.refs[tag] = ZeroDesc,
               !.blobs = @ \cup {BaseDesc(tag)},
               !.ops = @ \o <<Op("ImageCopy output", tag),
                              Op("DeleteReference", tag)>>]

\* C17 (as stated): for a built layer of an acyclic recipe getBuilt fails
\* with the missing-base error when a link of the chain to the first
\* ancestor that is not built names an absent layer; otherwise it copies the
\* cached base image into the output layout and then deletes the base tag
\* exactly when that ancestor is of type docker or oci and build-only, and
\* in every other case returns success without a copy or a reference change.
\* No collaborator fails and the base image is in the layer-base cache.
C17_GetBuiltCopiesBase ==
    (GetBuiltReturned /\ call.in.f = "none" /\ call.in.st.base # {}) =>
        LET sf == call.in.sf
            st == call.in.st
            j == Ancestor(sf, Len(sf))
        IN IF j = 0 THEN call.out = Fail(st, "missing base layer")
           ELSE IF CopiesBase(sf[j])
           THEN \E tag \in RefNames : call.out = CopiedAndDeleted(st, tag)
           ELSE call.out = st

\* C17 (amended): as stated, except that when the ancestor is of type docker
\* or oci and build-only getBuilt first parses the tag of the ancestor's URL
\* and returns the parse error, without a copy or a reference change, when
\* the URL yields no tag; a failed copy is returned with nothing changed,
\* and a failed delete is returned after the copy.
C17_GetBuiltCopiesParsedBase ==
    GetBuiltReturned =>
        LET sf == call.in.sf
            st == call.in.st
            f == call.in.f
            j == Ancestor(sf, Len(sf))
        IN IF j = 0 THEN call.out = Fail(st, "missing base layer")
           ELSE IF ~CopiesBase(sf[j]) THEN call.out = st
           ELSE IF ParseTag(sf[j].From).err # ""
           THEN call.out = Fail(st, ParseTag(sf[j].From).err)
           ELSE IF f = "ImageCopy output" \/ ParseTag(sf[j].From).val \notin st.base
           THEN /\ call.out.err # ""
                /\ call.out = Fail(st, call.out.err)
           ELSE IF f = "DeleteReference"
           THEN call.out =
                    [CopiedAndDeleted(st, ParseTag(sf[j].From).val) EXCEPT
                        !.refs = [st.refs EXCEPT ![ParseTag(sf[j].From).val] =
                                     BaseDesc(ParseTag(sf[j].From).val)],
                        !.ops = st.ops \o <<Op("ImageCopy output",
                                               ParseTag(sf[j].From).val)>>,
                        !.err = f]
           ELSE call.out = CopiedAndDeleted(st, ParseTag(sf[j].From).val)

\* getBuilt was called for a layer built on a built layer whose base is a
\* build-only docker layer; it copied the base image and deleted its tag.
C17_Witness ==
    /\ GetBuiltReturned
    /\ Len(call.in.sf) = 3
    /\ call.in.sf[3].From.Tag = call.in.sf[2].Name
    /\ call.in.sf[2].From = Source(BuiltType, call.in.sf[1].Name, Empty)
    /\ call.in.sf[1].From.Type = DockerType
    /\ call.in.sf[1].BuildOnly
    /\ call.out = CopiedAndDeleted(call.in.st, <<"x">>)

\* runSkopeo has returned.
RunSkopeoReturned == call.fn = "runSkopeo" /\ call.done

\* The deferred function was run: the last thing runSkopeo did is to open
\* the layer-base cache, and to collect it when it could be opened.
GCAttempted(out) ==
    /\ out.ops # << >>
    /\ out.ops[Len(out.ops)].op \in {"GC cache", "OpenLayout cache"}

\* What runSkopeo returns and leaves behind in the output layout and the
\* layer-base cache is the same for every outcome of the deferred function.
GCSwallowed(in, out) ==
    \A g \in CacheGCFailPoints \cup {"none"} :
        LET other == runSkopeo(in.toImport, in.o, in.copyToOutput, in.st, in.f, g)
        IN /\ other.err = out.err
           /\ other.refs = out.refs
           /\ other.blobs = out.blobs
           /\ other.base = out.base

\* C18 (as stated): runSkopeo attempts the garbage collection of the
\* layer-base cache on every exit path, whichever earlier step failed (tag
\* parsing, creation of the cache directory, copy into the cache, copy to
\* the output), and returns the same error whether the GC succeeds, fails or
\* the cache cannot be opened.
C18_CacheGCOnEveryExit ==
    RunSkopeoReturned =>
        /\ GCAttempted(call.out)
        /\ GCSwallowed(call.in, call.out)

\* C18 (amended): runSkopeo attempts the garbage collection of the
\* layer-base cache on every exit path after the cache directory was
\* created (failed copy into the cache, failed copy to the output, success)
\* and on no exit before it (failed tag parsing, failed creation of the
\* directory); it returns the same error whether the GC succeeds, fails or
\* the cache cannot be opened.
C18_CacheGCAfterMkdir ==
    RunSkopeoReturned =>
        /\ GCAttempted(call.out) <=>
               /\ tagFromSkopeoUrl(call.in.toImport).err = ""
               /\ call.in.f # "MkdirAll"
        /\ GCSwallowed(call.in, call.out)

\* The copy into the cache failed, then the GC of the cache failed too, and
\* runSkopeo returned the error of the copy.
C18_Witness ==
    /\ RunSkopeoReturned
    /\ call.in.f = "ImageCopy cache"
    /\ call.in.g = "GC cache"
    /\ call.out.err = "ImageCopy cache"
    /\ call.out.ops = <<Op("GC cache", Empty)>>

\* C19: during the iteration of a layer, hit or miss, successful or not,
\* Build creates, deletes or overwrites no storage entry but .working and
\* the snapshot named after that layer.
C19_OtherSnapshotsUntouched ==
    [][(pc \notin {"idle", "GC"}) =>
          \A n \in StorageNames \ {Working, recipe[idx].Name} :
              storage'[n] = storage[n]]_vars

\* The second layer has just been snapshotted under its name while the
\* snapshot of the first layer, different from it, is still there.
C19_Witness ==
    /\ pc \in {"Put", "PutBuildOnly"}
    /\ idx = 2
    /\ storage[recipe[1].Name].present
    /\ storage[recipe[2].Name].present
    /\ storage[recipe[2].Name] = storage[Working]
    /\ storage[recipe[1].Name] # storage[recipe[2].Name]

\* Reference name of layout refs resolves to a descriptor that an earlier
\* invocation of Build produced for that layer.
StaleReference(refs, name) ==
    /\ refs[name] # ZeroDesc
    /\ refs[name].n = name
    /\ refs[name].b \in 1..(build - 1)

\* C20: when Build aborts in the iteration of a layer that is being rebuilt
\* after a cache miss, in the restore or create of .working, the base
\* import, the apply, the run or the repack, the output OCI layout does not
\* resolve the layer's name to the descriptor of an earlier build.
C20_NoStaleReferenceAfterAbort ==
    [][(/\ pc \in {"PrepareWorking", "BaseImport", "ApplyImports",
                   "RunCommands", "Repack"}
        /\ pc' = "idle") =>
          ~StaleReference(ociRefs', recipe[idx].Name)]_vars

\* C21: when the importer of a docker or oci layer that is not build-only
\* rewrites the base as squashfs, every lookup of the base manifest in the
\* layer-base cache is made under the tag the import step stored the image
\* under, never under an empty tag; and when no tag can be parsed from the
\* layer's URL the rewrite that got as far as the lookup returns the error
\* of the parse.
C21_RewriteLooksUpImportedTag ==
    (/\ call.fn = "GetBaseLayer"
     /\ call.done
     /\ call.in.o.LayerType = "squashfs"
     /\ ~call.in.o.Layer.BuildOnly) =>
        /\ \A k \in 1..Len(call.out.ops) :
               call.out.ops[k].op = "LookupManifest" =>
                   /\ call.out.ops[k].arg # Empty
                   /\ \E p \in 1..(k - 1) :
                          call.out.ops[p] = Op("ImageCopy cache", call.out.ops[k].arg)
        /\ (/\ tagFromSkopeoUrl(call.in.o.Layer.From.Url).err # ""
            /\ \E k \in 1..Len(call.out.ops) : call.out.ops[k].op = "PutBlob"
            /\ call.in.f # "OpenLayout") =>
               call.out.err = tagFromSkopeoUrl(call.in.o.Layer.From.Url).err

====
